---- MODULE Spec2Model ----
(***************************************************************************)
(* Task store, task handlers and authentication of taskflowb (later        *)
(* revision of routes/dashboard.js and of the Task model, routes/auth.js,   *)
(* models/User.js).  A state is the Task collection, the User collection,   *)
(* the signups in flight, the tokens handed out, and the last request with  *)
(* its response; a task request is handled to completion in one step, the   *)
(* mongoose save hooks included; a signup takes two steps.  The database   *)
(* may fail a step of the post-save hook.                                   *)
(***************************************************************************)
EXTENDS Integers, Sequences, FiniteSets, TLC

\* Number of ObjectIds the store can hand out (ids are never reused).
MaxTasks == 3

Ids == 1..MaxTasks

\* Authenticated user ids (req.userId after verifyToken).
Users == {"u1", "u2"}

StatusEnum == {"Todo", "In Progress", "Done"}

PriorityEnum == {"High", "Medium", "Low"}

DefaultColor == "#000000"

DefaultPriority == "Medium"

VARIABLES
    store,   \* the Task collection: a function from the ids of the stored documents to the documents
    nextId,  \* the next ObjectId to be generated
    now,     \* Date.now()
    last,    \* the last request and the response it got
    users,   \* the User collection: a function from the ids of the stored users to the documents
    pending, \* per client, the signup body that has passed the existence check and is not yet saved
    issued,  \* the tokens signin has returned
    auth,    \* the Authorization header of the last task request that went through verifyToken
    fault    \* the step of the post('save') hook that fails at present, and whether abortTransaction fails too

vars == <<store, nextId, now, last, users, pending, issued, auth, fault>>

\* What a task handler behind verifyToken leaves alone.
authVars == <<users, pending, issued, auth, fault>>

----------------------------------------------------------------------------
\* Helpers

Range(s) == {s[i] : i \in 1..Len(s)}

\* Array.prototype.indexOf: the first index holding x, 0 when there is none.
IndexOf(s, x) ==
    IF x \in Range(s) THEN CHOOSE i \in 1..Len(s) : s[i] = x /\ \A j \in 1..(i - 1) : s[j] # x
    ELSE 0

\* Array.prototype.splice(i, 1)
Splice(s, i) == [j \in 1..(Len(s) - 1) |-> IF j < i THEN s[j] ELSE s[j + 1]]

\* {...a, ...b}: the keys of both, b's value where both have the key.
Merge(a, b) == [k \in DOMAIN a \cup DOMAIN b |-> IF k \in DOMAIN b THEN b[k] ELSE a[k]]

Has(r, k) == k \in DOMAIN r

----------------------------------------------------------------------------
\* Request bodies: a record holding exactly the keys the client sent.

\* The schema with a subtasks key added to the ones it lists.
BodyKeysWithSubtasks ==
    {"task", "desc", "start", "finish", "color", "status", "priority", "subtasks"}

BodyKeys == {"task", "desc", "start", "finish", "color", "status", "priority"}

FullA == [task |-> <<"a">>, desc |-> "d", start |-> 1, finish |-> 2,
          color |-> "red", status |-> "Todo", priority |-> "High"]

FullB == [task |-> <<"A", "b">>, start |-> 0, finish |-> 1,
          status |-> "Done", priority |-> "Low"]

DoneA == [FullA EXCEPT !.status = "Done"]

MediumA == [FullA EXCEPT !.priority = "Medium"]

NoPriority == [task |-> <<"a">>, start |-> 1, finish |-> 2, status |-> "Todo"]

OnlyStatus == [status |-> "In Progress"]

BadDates == [task |-> <<"a">>, start |-> 2, finish |-> 1, status |-> "Todo", priority |-> "High"]

WithCreator == [task |-> <<"a">>, start |-> 1, finish |-> 2, status |-> "Todo",
                priority |-> "High", creator |-> "u2"]

\* A complete body that also names, as its subtasks, the second task.
WithSubtasks == [task |-> <<"a">>, desc |-> "d", start |-> 1, finish |-> 2,
                 color |-> "red", status |-> "Todo", priority |-> "High",
                 subtasks |-> <<2>>]

\* The schema without .greater(Joi.ref('start')) on finish.
validateTaskOkNoOrder(body) ==
    /\ DOMAIN body \subseteq BodyKeys
    /\ Has(body, "task") /\ Len(body.task) > 0
    /\ Has(body, "desc") => body.desc # ""
    /\ Has(body, "start")
    /\ Has(body, "finish")
    /\ Has(body, "color") => body.color # ""
    /\ Has(body, "status") /\ body.status \in StatusEnum
    /\ Has(body, "priority") /\ body.priority \in PriorityEnum

\* taskValidationSchema: the keys that are present must be well-formed, the
\* required ones present, no key unknown.  priority is .default('Medium')
\* and then .required(): a body without it is an error.
validateTaskOk(body) ==
    /\ DOMAIN body \subseteq BodyKeys
    /\ Has(body, "task") /\ Len(body.task) > 0
    /\ Has(body, "desc") => body.desc # ""
    /\ Has(body, "start")
    /\ Has(body, "finish") /\ body.finish > body.start
    /\ Has(body, "color") => body.color # ""
    /\ Has(body, "status") /\ body.status \in StatusEnum
    /\ Has(body, "priority") /\ body.priority \in PriorityEnum

\* The value Joi returns for a valid body: the body with color defaulted.
validateTaskValue(body) ==
    IF Has(body, "color") THEN body ELSE Merge(body, [color |-> DefaultColor])

validateTask(body) ==
    IF validateTaskOk(body)
    THEN [error |-> FALSE, value |-> validateTaskValue(body)]
    ELSE [error |-> TRUE, value |-> body]

----------------------------------------------------------------------------
\* The Task model

\* new Task({...value, creator}): the schema defaults for what is missing.
NewTask(value, creator) ==
    Merge([status |-> "Todo", priority |-> DefaultPriority, color |-> DefaultColor,
           created_at |-> now, subtasks |-> <<>>],
          Merge(value, [creator |-> creator]))

\* taskSchema.pre('save'): TRUE when the save may proceed.
PreSave(doc) ==
    /\ ~(doc.finish < doc.start)
    /\ doc.priority \in PriorityEnum

\* findOne that takes the oldest task for the parent, whatever its subtasks.
FindAny(s, id) ==
    LET ps == {p \in DOMAIN s : p < id}
    IN  IF ps = {} THEN 0 ELSE CHOOSE p \in ps : \A q \in ps : p <= q

\* findOne({subtasks: id}): a task whose subtasks hold id (the first in
\* natural order when several do).
FindParent(s, id) ==
    LET ps == {p \in DOMAIN s : id \in Range(s[p].subtasks)}
    IN  IF ps = {} THEN 0 ELSE CHOOSE p \in ps : \A q \in ps : p <= q

\* countDocuments({_id: {$in: parent.subtasks}, status: {$ne: 'Done'}})
UnfinishedSubtasks(s, p) ==
    Cardinality({c \in DOMAIN s : c \in Range(s[p].subtasks) /\ s[c].status # "Done"})

\* taskSchema.post('save') of document id when no step of it fails: the
\* collection after the hook.  status is this.status, the status of the
\* document object that was saved.  parentTask.save({session}) runs the hooks
\* of the parent in turn, before the transaction that holds the parent's new
\* status commits: the hook of the parent reads in a session of its own and
\* so sees the collection s without that status.  When the pre hook of the
\* parent refuses, the error is caught and logged and the parent stays as it
\* was.
RECURSIVE PostSave(_, _, _)
PostSave(s, id, status) ==
    IF status # "Done" THEN s
    ELSE LET p == FindParent(s, id)
         IN  IF p = 0 THEN s
             ELSE IF UnfinishedSubtasks(s, p) = 0 /\ PreSave(s[p])
                  THEN [PostSave(s, p, "Done") EXCEPT ![p].status = "Done"]
                  ELSE s

\* No step of the hook fails.
NoFault == [step |-> "none", abort |-> FALSE]

\* The steps of the hook that the database may fail, each with
\* abortTransaction succeeding or failing as well.
Faults ==
    [step : {"startSession", "startTransaction", "findOne", "countDocuments", "save",
             "commitTransaction"},
     abort : BOOLEAN]

\* The hook of document id, saved with this.status = status into s, comes to
\* the step that fails.
FaultReached(s, id, status) ==
    /\ status = "Done"
    /\ fault.step # "none"
    /\ fault.step = "countDocuments" => FindParent(s, id) # 0
    /\ fault.step = "save" => /\ FindParent(s, id) # 0
                              /\ UnfinishedSubtasks(s, FindParent(s, id)) = 0

\* The hook rejects, and with it the save() that ran it: startSession and
\* startTransaction stand before the try block; an error inside it is
\* caught, and thrown on only when abortTransaction fails in the catch.
HookThrows(s, id, status) ==
    /\ FaultReached(s, id, status)
    /\ fault.step \in {"startSession", "startTransaction"} \/ fault.abort

\* The collection after the hook: a transaction that does not commit leaves
\* no write behind, and while the fault lasts none commits.
Hook(s, id, status) == IF FaultReached(s, id, status) THEN s ELSE PostSave(s, id, status)

\* The insert of newTask.save() (the pre hook has passed).
Insert(s, id, doc) == Merge(s, [i \in {id} |-> doc])

\* newTask.save() of a new document: insert, post hook.
SaveNew(s, id, doc) == Hook(Insert(s, id, doc), id, doc.status)

\* The write of parentTask.save() after its subtasks array was changed to
\* subs: only the modified path is written.
WriteSubtasks(s, id, subs) == [s EXCEPT ![id].subtasks = subs]

\* parentTask.save(): the write, then the post hook on the parent.
SaveSubtasks(s, id, subs, status) == Hook(WriteSubtasks(s, id, subs), id, status)

\* The filter with the creator left out: any user's document matches.
ByIdOnly(s, id, u) == id \in DOMAIN s

\* The filter {_id: id, creator: req.userId} of findOneAndUpdate and findOneAndDelete.
ByIdAndCreator(s, id, u) == id \in DOMAIN s /\ s[id].creator = u

\* unshift in place of push: the new id goes to the front.
Unshift(subs, id) == <<id>> \o subs

\* parentTask.subtasks.push(id)
Push(subs, id) == Append(subs, id)

----------------------------------------------------------------------------
\* Responses

\* The body of a request that has none, the paging of a response that has none.
NoBody == [none |-> TRUE]

RespondPaged(op, user, id, sub, body, code, ret, meta) ==
    last' = [op |-> op, user |-> user, id |-> id, sub |-> sub, body |-> body,
             code |-> code, ret |-> ret, meta |-> meta]

Respond(op, user, id, sub, body, code, ret) ==
    RespondPaged(op, user, id, sub, body, code, ret, NoBody)

\* A document as the response carries it.
Out(s, id) == [id |-> id, doc |-> s[id]]

----------------------------------------------------------------------------
\* router.post('/task'), dt being the time that passes until the next
\* request creates a document (0: within the same millisecond).
CreateTaskIn(u, body, dt) ==
    LET v == validateTask(body) IN
    IF v.error
    THEN /\ Respond("create", u, 0, 0, body, 400, <<>>)
         /\ UNCHANGED <<store, nextId, now>>
    ELSE LET doc == NewTask(v.value, u) IN
         /\ nextId <= MaxTasks
         /\ now' = now + dt
         /\ IF ~PreSave(doc)
            THEN /\ UNCHANGED <<store, nextId>>
                 /\ Respond("create", u, 0, 0, body, 500, <<>>)
            ELSE IF HookThrows(Insert(store, nextId, doc), nextId, doc.status)
            THEN /\ store' = SaveNew(store, nextId, doc)
                 /\ nextId' = nextId + 1
                 /\ Respond("create", u, 0, 0, body, 500, <<>>)
            ELSE /\ store' = SaveNew(store, nextId, doc)
                 /\ nextId' = nextId + 1
                 /\ Respond("create", u, nextId, 0, body, 200, <<[id |-> nextId, doc |-> doc]>>)

\* router.post('/task') with the next creation at a later time.
CreateTask(u, body) == CreateTaskIn(u, body, 1)

\* router.post('/task/:id/subtask')
CreateSubtask(u, id, body) ==
    LET v == validateTask(body) IN
    IF v.error
    THEN /\ Respond("createSubtask", u, id, 0, body, 400, <<>>)
         /\ UNCHANGED <<store, nextId, now>>
    ELSE IF id \notin DOMAIN store
    THEN /\ Respond("createSubtask", u, id, 0, body, 404, <<>>)
         /\ UNCHANGED <<store, nextId, now>>
    ELSE LET parentTask == store[id]
             subtask    == NewTask(v.value, u)
         IN
         /\ nextId <= MaxTasks
         /\ now' = now + 1
         /\ IF ~PreSave(subtask)
            THEN /\ UNCHANGED <<store, nextId>>
                 /\ Respond("createSubtask", u, id, 0, body, 500, <<>>)
            ELSE IF \/ HookThrows(Insert(store, nextId, subtask), nextId, subtask.status)
                    \/ ~PreSave(parentTask)
            THEN /\ store' = SaveNew(store, nextId, subtask)
                 /\ nextId' = nextId + 1
                 /\ Respond("createSubtask", u, id, 0, body, 500, <<>>)
            ELSE IF HookThrows(WriteSubtasks(SaveNew(store, nextId, subtask), id,
                                             Push(parentTask.subtasks, nextId)),
                               id, parentTask.status)
            THEN /\ store' = SaveSubtasks(SaveNew(store, nextId, subtask), id,
                                          Push(parentTask.subtasks, nextId),
                                          parentTask.status)
                 /\ nextId' = nextId + 1
                 /\ Respond("createSubtask", u, id, 0, body, 500, <<>>)
            ELSE /\ store' = SaveSubtasks(SaveNew(store, nextId, subtask), id,
                                          Push(parentTask.subtasks, nextId),
                                          parentTask.status)
                 /\ nextId' = nextId + 1
                 /\ Respond("createSubtask", u, id, nextId, body, 200,
                            <<[id |-> nextId, doc |-> subtask]>>)

\* router.get('/task/:id/subtasks'): populate drops the ids that have no document.
GetSubtasks(u, id) ==
    /\ UNCHANGED <<store, nextId, now>>
    /\ IF id \notin DOMAIN store
       THEN Respond("getSubtasks", u, id, 0, NoBody, 404, <<>>)
       ELSE Respond("getSubtasks", u, id, 0, NoBody, 200,
                    [j \in 1..Len(SelectSeq(store[id].subtasks, LAMBDA c : c \in DOMAIN store))
                        |-> Out(store, SelectSeq(store[id].subtasks, LAMBDA c : c \in DOMAIN store)[j])])

\* router.put('/task/:id'): findOneAndUpdate runs no save hook.
UpdateTask(u, id, body) ==
    LET v == validateTask(body) IN
    /\ UNCHANGED <<nextId, now>>
    /\ IF v.error
       THEN /\ Respond("update", u, id, 0, body, 400, <<>>)
            /\ UNCHANGED store
       ELSE IF ByIdAndCreator(store, id, u)
       THEN /\ store' = [store EXCEPT ![id] = Merge(@, v.value)]
            /\ Respond("update", u, id, 0, body, 200, <<Out(store', id)>>)
       ELSE /\ Respond("update", u, id, 0, body, 404, <<>>)
            /\ UNCHANGED store

\* router.delete('/task/:id')
DeleteTask(u, id) ==
    /\ UNCHANGED <<nextId, now>>
    /\ IF ByIdAndCreator(store, id, u)
       THEN /\ store' = [i \in DOMAIN store \ {id} |-> store[i]]
            /\ Respond("delete", u, id, 0, NoBody, 200, <<Out(store, id)>>)
       ELSE /\ Respond("delete", u, id, 0, NoBody, 404, <<>>)
            /\ UNCHANGED store

\* router.delete('/task/:parentId/subtask/:subtaskId')
DeleteSubtask(u, parentId, subtaskId) ==
    /\ UNCHANGED <<nextId, now>>
    /\ IF parentId \notin DOMAIN store
       THEN /\ Respond("deleteSubtask", u, parentId, subtaskId, NoBody, 404, <<>>)
            /\ UNCHANGED store
       ELSE LET parentTask   == store[parentId]
                subtaskIndex == IndexOf(parentTask.subtasks, subtaskId)
                saved        == SaveSubtasks(store, parentId,
                                             Splice(parentTask.subtasks, subtaskIndex),
                                             parentTask.status)
            IN
            IF subtaskIndex = 0
            THEN /\ Respond("deleteSubtask", u, parentId, subtaskId, NoBody, 404, <<>>)
                 /\ UNCHANGED store
            ELSE IF ~PreSave(parentTask)
            THEN /\ Respond("deleteSubtask", u, parentId, subtaskId, NoBody, 500, <<>>)
                 /\ UNCHANGED store
            ELSE IF HookThrows(WriteSubtasks(store, parentId,
                                             Splice(parentTask.subtasks, subtaskIndex)),
                               parentId, parentTask.status)
            THEN /\ Respond("deleteSubtask", u, parentId, subtaskId, NoBody, 500, <<>>)
                 /\ store' = saved
            ELSE IF ByIdAndCreator(saved, subtaskId, u)
            THEN /\ store' = [i \in DOMAIN saved \ {subtaskId} |-> saved[i]]
                 /\ Respond("deleteSubtask", u, parentId, subtaskId, NoBody, 200,
                            <<Out(saved, subtaskId)>>)
            ELSE /\ store' = saved
                 /\ Respond("deleteSubtask", u, parentId, subtaskId, NoBody, 404, <<>>)

----------------------------------------------------------------------------
\* Reads

\* A query parameter is "absent", a decimal numeral ("0", "1", "2") or some
\* other string.  parseInt: 0 - 1 stands for NaN.
NaN == 0 - 1

parseInt(q) == CASE q = "0" -> 0 [] q = "1" -> 1 [] q = "2" -> 2 [] OTHER -> NaN

DefaultPage == 1

DefaultLimit == 10

\* let { page = 1, limit = 10 } = req.query, parseInt, and the two clamps.
PageOf(q) ==
    IF q = "absent" \/ parseInt(q) = NaN \/ parseInt(q) < 1 THEN DefaultPage ELSE parseInt(q)

LimitOf(q) ==
    IF q = "absent" THEN DefaultLimit
    ELSE IF parseInt(q) = NaN \/ parseInt(q) < 1 THEN DefaultLimit ELSE parseInt(q)

\* Math.ceil(a / b) for b >= 1
CeilDiv(a, b) == (a + b - 1) \div b

\* The place of a priority when the strings are compared: "High" < "Low" < "Medium".
StringOrder(p) == CASE p = "High" -> 1 [] p = "Low" -> 2 [] p = "Medium" -> 3 [] OTHER -> 0

\* sort({priority: -1, created_at: -1}): a may stand before b.
SortedBefore(a, b) ==
    \/ StringOrder(a.priority) > StringOrder(b.priority)
    \/ /\ StringOrder(a.priority) = StringOrder(b.priority)
       /\ a.created_at >= b.created_at

\* The orders in which find(...).sort(...) may return the documents ids
\* (any order among documents equal in both keys).
SortedSeqs(s, ids) ==
    {q \in [1..Cardinality(ids) -> ids] :
        /\ \A i, j \in DOMAIN q : i < j => q[i] # q[j] /\ SortedBefore(s[q[i]], s[q[j]])}

\* skip(n).limit(m)
SkipLimit(q, n, m) == SubSeq(q, n + 1, IF n + m < Len(q) THEN n + m ELSE Len(q))

Docs(s, q) == [i \in DOMAIN q |-> Out(s, q[i])]

\* router.get('/tasks'); the body of the request stands for req.query.
ListTasks(u, pageQ, limitQ) ==
    LET page  == PageOf(pageQ)
        limit == LimitOf(limitQ)
        mine  == {i \in DOMAIN store : store[i].creator = u}
    IN  /\ UNCHANGED <<store, nextId, now>>
        /\ \E q \in SortedSeqs(store, mine) :
              RespondPaged("list", u, 0, 0, [page |-> pageQ, limit |-> limitQ], 200,
                           Docs(store, SkipLimit(q, (page - 1) * limit, limit)),
                           [total |-> Cardinality(mine), page |-> page, limit |-> limit,
                            totalPages |-> CeilDiv(Cardinality(mine), limit)])

Lower(c) == CASE c = "A" -> "a" [] c = "B" -> "b" [] OTHER -> c

\* {$regex: keyword, $options: 'i'} on a name: the keyword is the pattern as
\* given, so "." stands for any character; every other character of the
\* alphabet used here stands for itself, in either case.
RegexFound(keyword, name) ==
    \E i \in 0..(Len(name) - Len(keyword)) :
        \A j \in 1..Len(keyword) :
            keyword[j] = "." \/ Lower(keyword[j]) = Lower(name[i + j])

\* The filter router.get('/search') builds from the query parameters present
\* (an empty string is falsy and adds nothing).
SearchMatches(doc, u, query) ==
    /\ doc.creator = u
    /\ (Has(query, "status") /\ query.status # "") => doc.status = query.status
    /\ (Has(query, "priority") /\ query.priority # "") => doc.priority = query.priority
    /\ Has(query, "startDate") => doc.start >= query.startDate
    /\ Has(query, "endDate") => doc.finish <= query.endDate
    /\ (Has(query, "keyword") /\ query.keyword # <<>>) => RegexFound(query.keyword, doc.task)

Queries ==
    { [status |-> ""],
      [status |-> "Done"],
      [keyword |-> <<".", "b">>],
      [priority |-> "High", startDate |-> 1, endDate |-> 2] }

\* router.get('/search')
SearchTasks(u, query) ==
    /\ UNCHANGED <<store, nextId, now>>
    /\ \E q \in SortedSeqs(store, {i \in DOMAIN store : SearchMatches(store[i], u, query)}) :
          Respond("search", u, 0, 0, query, 200, Docs(store, q))

----------------------------------------------------------------------------
\* Users, signup and signin (routes/auth.js, models/User.js).  Strings that
\* are hashed or searched are sequences of characters; now counts half hours.

\* Clients that may have a signup in flight at the same time.
Clients == {"c1", "c2"}

\* The slot of a client with no signup in flight.
Idle == [none |-> TRUE]

\* bcrypt draws a fresh salt for every hash.
Salts == {"s1", "s2"}

\* Storing the password as submitted, without hashing.
bcryptHashNone(password, salt) == password

\* bcrypt.hash(password, saltRounds): version, salt, and a digest that is
\* a one-to-one image of salt and password.
bcryptHash(password, salt) == <<"$2b$", salt>> \o password

\* bcrypt.compare(password, hash): hash again with the salt found in hash.
bcryptCompare(password, hash) ==
    IF Len(hash) >= 2 /\ hash[1] = "$2b$"
    THEN hash = <<"$2b$", hash[2]>> \o password
    ELSE FALSE

Ann == [username |-> "ann", email |-> "ann@x", password |-> <<"p">>]

\* The username of Ann with another email and password.
AnnToo == [username |-> "ann", email |-> "ann2@x", password |-> <<"q">>]

\* The email of Ann with another username.
Bob == [username |-> "bob", email |-> "ann@x", password |-> <<"q">>]

Cyd == [username |-> "cyd", email |-> "cyd@x", password |-> <<"p">>]

\* A signup body without a password.
NoPassword == [username |-> "dan", email |-> "dan@x", password |-> <<>>]

\* userSchema, required: true on username, email and password.
UserValid(doc) == doc.username # "" /\ doc.email # "" /\ doc.password # <<>>

\* User.findOne({$or: [{username}, {email}]}) finds a document.
ExistingUser(us, body) ==
    \E i \in DOMAIN us : us[i].username = body.username \/ us[i].email = body.email

\* The unique indexes of userSchema (unique: true on username and on email)
\* refuse the insert of doc.
DuplicateKey(us, doc) ==
    \E i \in DOMAIN us : us[i].username = doc.username \/ us[i].email = doc.email

\* The _id of new User(...): an id no stored user has.
NewUserId(us) == CHOOSE i \in Users \ DOMAIN us : TRUE

\* res.status(code).json(json) of an auth route or of verifyToken.
Reply(op, client, body, code, json) == RespondPaged(op, client, 0, 0, body, code, <<>>, json)

\* router.post('/signup') up to the answer of User.findOne: the request is
\* refused, or goes on to new User(...).save() in a later step.
SignupCheck(c, body) ==
    /\ pending[c] = Idle
    /\ UNCHANGED <<store, nextId, now, users, issued, auth, fault>>
    /\ IF ExistingUser(users, body)
       THEN /\ Reply("signup", c, body, 403, [message |-> "Username or email already exists"])
            /\ UNCHANGED pending
       ELSE /\ Reply("signupCheck", c, body, 0, NoBody)
            /\ pending' = [pending EXCEPT ![c] = body]

\* router.post('/signup') from user.save() on: validation, pre('save')
\* hashing, insert under the unique indexes; any error is answered 500.
SignupSave(c) ==
    LET body == pending[c] IN
    /\ body # Idle
    /\ pending' = [pending EXCEPT ![c] = Idle]
    /\ UNCHANGED <<store, nextId, now, issued, auth, fault>>
    /\ IF ~UserValid(body) \/ DuplicateKey(users, body)
       THEN /\ Reply("signup", c, body, 500, [message |-> "Internal server error"])
            /\ UNCHANGED users
       ELSE /\ DOMAIN users # Users
            /\ \E salt \in Salts :
                  users' = Merge(users, [i \in {NewUserId(users)} |->
                                           [username |-> body.username, email |-> body.email,
                                            password |-> bcryptHash(body.password, salt)]])
            /\ Reply("signup", c, body, 200, [message |-> "Signup successful"])

\* process.env.sauce
jwtSecret == "sauce"

\* expiresIn: '1h', in units of now
OneHour == 2

\* Waiting takes now as far as the expiry of a token issued at 0, and one further.
MaxNow == OneHour + 1

\* Number of tokens signin hands out.
MaxTokens == 2

\* jwt.sign(payload, secret, {expiresIn: '1h'}) at time t: the payload with
\* iat and exp, and the signature of the one who knows secret.
jwtSign(payload, secret, t) == <<Merge(payload, [iat |-> t, exp |-> t + OneHour]), secret>>

\* Verification that does not look at exp.
jwtVerifyNoExpiry(token, secret, t) == Len(token) = 2 /\ token[2] = secret

\* jwt.verify(token, secret) at time t does not throw.
jwtVerify(token, secret, t) == Len(token) = 2 /\ token[2] = secret /\ t < token[1].exp

\* The answer to a signin that finds no user with the email.
NoSuchUser == [code |-> 404, message |-> "User not found"]

\* The answer of signin to an unknown email and to a wrong password.
InvalidCredentials == [code |-> 403, message |-> "Invalid credentials"]

\* The answer of signin to an unknown email.
UnknownEmail == InvalidCredentials

\* The signin bodies: an email and a password, either may be missing.
SigninBodies ==
    { [email |-> "ann@x", password |-> <<"p">>], [email |-> "ann@x", password |-> <<"q">>],
      [email |-> "cyd@x", password |-> <<"p">>], [email |-> "", password |-> <<"p">>],
      [email |-> "ann@x", password |-> <<>>] }

\* router.post('/signin')
Signin(body) ==
    /\ UNCHANGED <<store, nextId, now, users, pending, auth, fault>>
    /\ IF body.email = "" \/ body.password = <<>>
       THEN /\ Reply("signin", "anon", body, 400, [message |-> "Email and password are required"])
            /\ UNCHANGED issued
       ELSE LET found == {i \in DOMAIN users : users[i].email = body.email} IN
            IF found = {}
            THEN /\ Reply("signin", "anon", body, UnknownEmail.code, [message |-> UnknownEmail.message])
                 /\ UNCHANGED issued
            ELSE LET id    == CHOOSE i \in found : TRUE
                     user  == users[id]
                     token == jwtSign([id |-> id, username |-> user.username], jwtSecret, now)
                 IN  IF ~bcryptCompare(body.password, user.password)
                     THEN /\ Reply("signin", "anon", body, InvalidCredentials.code,
                                   [message |-> InvalidCredentials.message])
                          /\ UNCHANGED issued
                     ELSE /\ Cardinality(issued) < MaxTokens
                          /\ issued' = issued \cup {token}
                          /\ Reply("signin", "anon", body, 200,
                                   [token |-> token, username |-> user.username])

\* Time passes.
Tick ==
    /\ now < MaxNow
    /\ now' = now + 1
    /\ Reply("tick", "anon", NoBody, 0, NoBody)
    /\ UNCHANGED <<store, nextId, users, pending, issued, auth, fault>>

\* The Authorization headers a client may send, each as authHeader.split(' ')
\* makes it (<<>> is the missing or empty header, and the empty token):
\* a token handed out by signin, alone, under another scheme, with a third
\* part, or with its payload changed and signed without the secret.
Headers ==
    {<<>>, <<"Bearer">>, <<"Bearer", <<>>>>}
    \cup {<<"Bearer", t>> : t \in issued}
    \cup {<<"Basic", t>> : t \in issued}
    \cup {<<"Bearer", t, "x">> : t \in issued}
    \cup {<<"Bearer", <<[t[1] EXCEPT !.exp = @ + OneHour], "guess">>>> : t \in issued}

\* verifyToken without the test of the scheme.
verifyTokenAnyScheme(h, t) ==
    IF h = <<>>
    THEN [error |-> TRUE, message |-> "Authorization header missing"]
    ELSE IF Len(h) # 2 \/ h[2] = <<>>
    THEN [error |-> TRUE, message |-> "Invalid authorization header format"]
    ELSE IF ~jwtVerify(h[2], jwtSecret, t)
    THEN [error |-> TRUE, message |-> "Invalid token"]
    ELSE [error |-> FALSE, userId |-> h[2][1].id]

\* verifyToken at time t: the refusal, or the decoded id for req.userId.
verifyToken(h, t) ==
    IF h = <<>>
    THEN [error |-> TRUE, message |-> "Authorization header missing"]
    ELSE IF Len(h) # 2 \/ h[1] # "Bearer" \/ h[2] = <<>>
    THEN [error |-> TRUE, message |-> "Invalid authorization header format"]
    ELSE IF ~jwtVerify(h[2], jwtSecret, t)
    THEN [error |-> TRUE, message |-> "Invalid token"]
    ELSE [error |-> FALSE, userId |-> h[2][1].id]

\* router.<method>(path, verifyToken, handler) when verifyToken answers
\* itself: the handler does not run.
Deny(h) ==
    /\ verifyToken(h, now).error
    /\ auth' = h
    /\ Reply("denied", "anon", NoBody, 403, [message |-> verifyToken(h, now).message])
    /\ UNCHANGED <<store, nextId, now, users, pending, issued, fault>>

\* router.<method>(path, verifyToken, handler) when verifyToken calls
\* next(): the handler runs with req.userId = UserId(h).
Admit(h) ==
    /\ ~verifyToken(h, now).error
    /\ auth' = h
    /\ UNCHANGED <<users, pending, issued, fault>>

UserId(h) == verifyToken(h, now).userId

----------------------------------------------------------------------------
\* The database starts or stops failing a step of the post-save hook.
Break(f) ==
    /\ fault' = f
    /\ Reply("break", "anon", NoBody, 0, NoBody)
    /\ UNCHANGED <<store, nextId, now, users, pending, issued, auth>>

----------------------------------------------------------------------------
Init ==
    /\ store = << >>
    /\ nextId = 1
    /\ now = 0
    /\ last = [op |-> "none", user |-> "u1", id |-> 0, sub |-> 0, body |-> NoBody,
               code |-> 0, ret |-> <<>>, meta |-> NoBody]
    /\ users = << >>
    /\ pending = [c \in Clients |-> Idle]
    /\ issued = {}
    /\ auth = << >>
    /\ fault = NoFault

\* The writing requests of the users US with bodies from BS (US are the
\* ids verifyToken has accepted).
Writes(US, BS) ==
    \/ \E u \in US, b \in BS : CreateTask(u, b) /\ UNCHANGED authVars
    \/ \E u \in US, id \in Ids, b \in BS : CreateSubtask(u, id, b) /\ UNCHANGED authVars
    \/ \E u \in US, id \in Ids, b \in BS : UpdateTask(u, id, b) /\ UNCHANGED authVars
    \/ \E u \in US, id \in Ids : DeleteTask(u, id) /\ UNCHANGED authVars
    \/ \E u \in US, p \in Ids, c \in Ids : DeleteSubtask(u, p, c) /\ UNCHANGED authVars

\* The reading requests of the users US with paging parameters from QS.
Reads(US, QS) ==
    \/ \E u \in US, id \in Ids : GetSubtasks(u, id) /\ UNCHANGED authVars
    \/ \E u \in US, pq \in QS, lq \in QS : ListTasks(u, pq, lq) /\ UNCHANGED authVars
    \/ \E u \in US, q \in Queries : SearchTasks(u, q) /\ UNCHANGED authVars

\* Every request of two users; the bodies are a complete one with status
\* Todo, the same with status Done, and one the validation refuses.
Next == Writes(Users, {FullA, DoneA, OnlyStatus}) \/ Reads(Users, {"absent", "2"})

Spec == Init /\ [][Next]_vars

\* Every request of one user; the bodies are two complete ones, the scenario
\* of the spec (valid but without priority), the partial update of
\* tests/dashboard.test.js, finish earlier than start, and a body with a key
\* the schema does not know.
NextFields ==
    \/ Writes({"u1"}, {FullA, FullB, NoPriority, OnlyStatus, BadDates, WithCreator})
    \/ Reads({"u1"}, {"absent", "2"})

SpecFields == Init /\ [][NextFields]_vars

\* The writing requests of two users, with a complete body and a refused one.
NextOwn == Writes(Users, {FullA, OnlyStatus})

SpecOwn == Init /\ [][NextOwn]_vars

\* The writing requests of one user, with two complete bodies and one whose
\* finish is earlier than its start.
NextDates == Writes({"u1"}, {FullA, FullB, BadDates})

SpecDates == Init /\ [][NextDates]_vars

\* The writing requests of two users, with a complete body whose status is
\* Done, so that every save looks up a parent, and a body that carries a
\* subtasks sequence.
NextTree == Writes(Users, {DoneA, WithSubtasks})

SpecTree == Init /\ [][NextTree]_vars

\* Signups of the clients CS with bodies from BS, each in its two steps.
Signups(CS, BS) ==
    \/ \E c \in CS, b \in BS : SignupCheck(c, b)
    \/ \E c \in CS : SignupSave(c)

\* Two clients signing up at the same time, with a body, two that clash
\* with it on the username or on the email, and one without a password.
NextSignup == Signups(Clients, {Ann, AnnToo, Bob, NoPassword})

SpecSignup == Init /\ [][NextSignup]_vars

\* Two users signing up and signing in, the passing of time, and a reading
\* task request under every header.
NextAuth ==
    \/ Signups({"c1"}, {Ann, Cyd})
    \/ \E b \in SigninBodies : Signin(b)
    \/ Tick
    \/ \E h \in Headers : Deny(h)
    \/ \E h \in Headers : Admit(h) /\ ListTasks(UserId(h), "absent", "absent")

SpecAuth == Init /\ [][NextAuth]_vars

\* One user signing up and signing in, the passing of time, and writing and
\* reading task requests under every header.
NextGuard ==
    \/ Signups({"c1"}, {Ann})
    \/ Signin([email |-> "ann@x", password |-> <<"p">>])
    \/ Tick
    \/ \E h \in Headers : Deny(h)
    \/ \E h \in Headers : Admit(h) /\ CreateTask(UserId(h), FullA)
    \/ \E h \in Headers, id \in Ids : Admit(h) /\ DeleteTask(UserId(h), id)
    \/ \E h \in Headers : Admit(h) /\ ListTasks(UserId(h), "absent", "absent")

SpecGuard == Init /\ [][NextGuard]_vars


\* What a page or limit parameter may be: missing, below 1, numeric, not numeric.
PagingQueries == {"absent", "0", "1", "2", "x"}

\* One user creating tasks of the three priorities, some within the same
\* millisecond, listing them under every page and limit, and searching them.
NextList ==
    \/ \E b \in {FullA, FullB, MediumA}, dt \in {0, 1} :
          CreateTaskIn("u1", b, dt) /\ UNCHANGED authVars
    \/ CreateTask("u2", FullA) /\ UNCHANGED authVars
    \/ \E pq \in PagingQueries, lq \in PagingQueries :
          ListTasks("u1", pq, lq) /\ UNCHANGED authVars
    \/ \E q \in Queries : SearchTasks("u1", q) /\ UNCHANGED authVars

SpecList == Init /\ [][NextList]_vars

\* One user creating tasks and subtasks, Todo and Done, and deleting
\* subtasks, while steps of the post-save hook fail.
NextHook ==
    \/ \E f \in Faults \cup {NoFault} : Break(f)
    \/ \E b \in {FullA, DoneA} : CreateTask("u1", b) /\ UNCHANGED authVars
    \/ \E id \in Ids, b \in {FullA, DoneA} : CreateSubtask("u1", id, b) /\ UNCHANGED authVars
    \/ \E pp \in Ids, c \in Ids : DeleteSubtask("u1", pp, c) /\ UNCHANGED authVars

SpecHook == Init /\ [][NextHook]_vars

----------------------------------------------------------------------------
\* Properties.  last' is the request a step handles and its response;
\* store is the collection before the step and store' after it.

\* The request of the step addresses a document its user created.
OwnTarget == last'.id \in DOMAIN store /\ store[last'.id].creator = last'.user

\* C1: no request authenticated as user U changes (or removes) a task whose
\* creator is not U; in particular createSubtask and deleteSubtask leave a
\* parent of another creator as it was.
C1_OnlyCreatorChanges ==
    [][\A i \in DOMAIN store :
          store[i].creator # last'.user => i \in DOMAIN store' /\ store'[i] = store[i]]_vars

C3_ReadsOnlyOwn ==
    last.op \in {"list", "search", "getSubtasks"}
        => \A i \in DOMAIN last.ret : last.ret[i].doc.creator = last.user

\* C4: deleteSubtask is all-or-nothing: answering 200 the id is gone from the
\* parent's subtasks and the subtask document is gone; answering 404 the
\* store is as it was.
C4_DeleteSubtaskAllOrNothing ==
    [][last'.op = "deleteSubtask" =>
          /\ last'.code = 200 =>
                /\ last'.sub \notin DOMAIN store'
                /\ last'.id \in DOMAIN store'
                     => last'.sub \notin Range(store'[last'.id].subtasks)
          /\ last'.code = 404 => store' = store]_vars

\* The parents of document id: the tasks whose subtasks hold it.
ParentsOf(s, id) == {p \in DOMAIN s : id \in Range(s[p].subtasks)}

\* C5: an update that marks Done the last subtask of a parent that was not
\* yet Done leaves the parent's status Done.
C5_UpdatePropagatesDone ==
    [][(/\ last'.op = "update" /\ last'.code = 200
        /\ store[last'.id].status # "Done"
        /\ store'[last'.id].status = "Done")
          => \A p \in ParentsOf(store, last'.id) :
                (\A c \in Range(store[p].subtasks) \ {last'.id} :
                    c \in DOMAIN store => store[c].status = "Done")
                  => store'[p].status = "Done"]_vars

\* A body that supplies some of the task fields, each of them well-formed.
WellFormedSubset(body) ==
    /\ DOMAIN body \subseteq BodyKeys /\ DOMAIN body # {}
    /\ Has(body, "task") => Len(body.task) > 0
    /\ Has(body, "status") => body.status \in StatusEnum
    /\ Has(body, "priority") => body.priority \in PriorityEnum
    /\ (Has(body, "start") /\ Has(body, "finish")) => body.finish > body.start

\* C6: an update of the caller's own task that supplies only some of the
\* fields answers 200 and returns the task with the supplied values.
C6_PartialUpdateSucceeds ==
    [][(last'.op = "update" /\ OwnTarget /\ WellFormedSubset(last'.body))
          => /\ last'.code = 200
             /\ Len(last'.ret) = 1
             /\ \A k \in DOMAIN last'.body : last'.ret[1].doc[k] = last'.body[k]]_vars

\* C7: a successful update changes only the fields the request supplies:
\* every other field of the task, creator, created_at and subtasks among
\* them, keeps its value, and no other task changes.
C7_UpdateChangesOnlySupplied ==
    [][(last'.op = "update" /\ last'.code = 200)
          => /\ DOMAIN store' = DOMAIN store
             /\ \A i \in DOMAIN store \ {last'.id} : store'[i] = store[i]
             /\ DOMAIN store'[last'.id] \subseteq DOMAIN store[last'.id] \cup DOMAIN last'.body
             /\ \A k \in DOMAIN store[last'.id] \ DOMAIN last'.body :
                   /\ k \in DOMAIN store'[last'.id]
                   /\ store'[last'.id][k] = store[last'.id][k]]_vars

\* C8: creating a task with task, start, finish > start and status but no
\* priority answers 200 and stores the task with priority Medium.
C8_CreateDefaultsPriority ==
    (/\ last.op = "create"
     /\ DOMAIN last.body \subseteq BodyKeys \ {"priority"}
     /\ {"task", "start", "finish", "status"} \subseteq DOMAIN last.body
     /\ Len(last.body.task) > 0 /\ last.body.finish > last.body.start
     /\ last.body.status \in StatusEnum)
        => /\ last.code = 200
           /\ last.id \in DOMAIN store
           /\ store[last.id].priority = "Medium"

\* C9: a creation, plain or as a subtask, whose finish is earlier than its
\* start answers 400 and leaves the store as it was (no document, no parent
\* changed); every stored task has finish >= start.
C9_FinishNotBeforeStart ==
    [][/\ (/\ last'.op \in {"create", "createSubtask"}
           /\ Has(last'.body, "start") /\ Has(last'.body, "finish")
           /\ last'.body.finish < last'.body.start)
             => last'.code = 400 /\ store' = store
       /\ \A i \in DOMAIN store' : store'[i].finish >= store'[i].start]_vars

\* A subtask with finish earlier than start was refused under an existing parent.
C9_Witness ==
    /\ last.op = "createSubtask" /\ last.code = 400
    /\ Has(last.body, "start") /\ Has(last.body, "finish")
    /\ last.body.finish < last.body.start
    /\ last.id \in DOMAIN store

C11_SignupUniqueOrConflict ==
    [][/\ \A i, j \in DOMAIN users' :
             i # j => /\ users'[i].username # users'[j].username
                      /\ users'[i].email # users'[j].email
       /\ (last'.op = "signup" /\ ExistingUser(users, last'.body))
             => /\ last'.meta.message = "Username or email already exists"
                /\ users' = users]_vars

\* The answers of the routes behind verifyToken, and of verifyToken itself.
TaskOps == {"denied", "create", "createSubtask", "getSubtasks", "update", "delete",
            "deleteSubtask", "list", "search"}

\* C12: a task request whose Authorization header is missing, is not of the
\* form 'Bearer <token>', or carries a token that fails verification is
\* answered 403, returns no task and leaves the task store as it was.
C12_BadHeaderDenied ==
    [][(/\ last'.op \in TaskOps
        /\ \/ auth' = <<>>
           \/ Len(auth') # 2
           \/ auth'[1] # "Bearer"
           \/ auth'[2] = <<>>
           \/ ~jwtVerify(auth'[2], jwtSecret, now))
          => /\ last'.code = 403
             /\ last'.ret = <<>>
             /\ store' = store /\ nextId' = nextId]_vars

\* A request carrying a token of signin that has expired was refused while
\* the store held a task.
C12_Witness ==
    /\ last.op = "denied" /\ last.code = 403
    /\ Len(auth) = 2 /\ auth[1] = "Bearer" /\ auth[2] \in issued
    /\ store # << >>

\* verifyToken accepts token t in a Bearer header at time n.
Accepted(t, n) == ~verifyToken(<<"Bearer", t>>, n).error

\* C13: the token a successful signin returns is issued at the time of the
\* signin and carries the id of the user with the email of the request; a
\* token of signin is accepted, and decodes to that id, exactly while less
\* than one hour has passed since it was issued; a task request carrying it
\* is handled for that user or refused accordingly; a token once refused is
\* refused after every step, and no step changes or withdraws a token.
C13_TokenValidOneHour ==
    [][/\ (last'.op = "signin" /\ last'.code = 200)
             => /\ last'.meta.token \in issued'
                /\ last'.meta.token[1].iat = now
                /\ last'.meta.token[1].id \in DOMAIN users
                /\ users[last'.meta.token[1].id].email = last'.body.email
       /\ \A t \in issued' :
             /\ Accepted(t, now') <=> now' - t[1].iat < OneHour
             /\ Accepted(t, now') => verifyToken(<<"Bearer", t>>, now').userId = t[1].id
       /\ (last'.op \in TaskOps /\ Len(auth') = 2 /\ auth'[1] = "Bearer" /\ auth'[2] \in issued)
             => IF now - auth'[2][1].iat < OneHour
                THEN last'.op # "denied" /\ last'.user = auth'[2][1].id
                ELSE last'.op = "denied" /\ last'.code = 403
       /\ \A t \in issued : t \in issued' /\ (~Accepted(t, now) => ~Accepted(t, now'))]_vars

\* A token of signin was refused an hour after it was issued, while a later
\* token of the same user is still accepted.
C13_Witness ==
    /\ last.op = "denied"
    /\ Len(auth) = 2 /\ auth[1] = "Bearer" /\ auth[2] \in issued
    /\ now - auth[2][1].iat >= OneHour
    /\ \E t \in issued : t[1].id = auth[2][1].id /\ now - t[1].iat < OneHour

\* C14: a signin with email and password present is answered 403 with the
\* message 'Invalid credentials' and nothing else, both when no user has
\* the email and when a user has it and the password does not match the
\* stored hash; a token is handed out only by a signin whose password
\* matches the stored hash of the user with that email.
C14_SigninUniformRefusal ==
    [][/\ (last'.op = "signin" /\ last'.body.email # "" /\ last'.body.password # <<>>)
             => /\ (\A i \in DOMAIN users :
                       users[i].email = last'.body.email
                         => ~bcryptCompare(last'.body.password, users[i].password))
                      => /\ last'.code = 403
                         /\ last'.meta = [message |-> "Invalid credentials"]
                         /\ last'.ret = <<>>
                         /\ issued' = issued
                /\ last'.code = 200
                      => \E i \in DOMAIN users :
                            /\ users[i].email = last'.body.email
                            /\ bcryptCompare(last'.body.password, users[i].password)
                            /\ last'.meta.token[1].id = i
       /\ issued' # issued => last'.op = "signin" /\ last'.code = 200]_vars

\* A signin with an email no user has was refused while another user is
\* registered whose password is the one submitted.
C14_Witness ==
    /\ last.op = "signin" /\ last.code = 403
    /\ \A i \in DOMAIN users : users[i].email # last.body.email
    /\ \E i \in DOMAIN users : bcryptCompare(last.body.password, users[i].password)

\* C15: a signup answered 200 has stored one new user, with the username
\* and email submitted and a password that is not the submitted plaintext
\* and that the hash-check accepts for the plaintext; no later step changes
\* or removes a stored user; and a signin with the email and the plaintext
\* of a signup that stored a user is not refused.
C15_PasswordStoredHashed ==
    [][/\ (last'.op = "signup" /\ last'.code = 200)
             => \E i \in DOMAIN users' \ DOMAIN users :
                   /\ DOMAIN users' = DOMAIN users \cup {i}
                   /\ users'[i].username = last'.body.username
                   /\ users'[i].email = last'.body.email
                   /\ users'[i].password # last'.body.password
                   /\ bcryptCompare(last'.body.password, users'[i].password)
       /\ \A i \in DOMAIN users : i \in DOMAIN users' /\ users'[i] = users[i]
       /\ \A b \in {Ann, Cyd} :
             (/\ last'.op = "signin"
              /\ last'.body = [email |-> b.email, password |-> b.password]
              /\ \E i \in DOMAIN users : users[i].email = b.email)
                => last'.code = 200 /\ last'.meta.token \in issued']_vars

\* The second user to sign up has signed in with the password of the signup.
C15_Witness ==
    /\ last.op = "signin" /\ last.code = 200
    /\ Cardinality(DOMAIN users) = 2
    /\ last.body = [email |-> Cyd.email, password |-> Cyd.password]
    /\ \E i \in DOMAIN users : users[i].email = Cyd.email /\ users[i].password # Cyd.password

\* The ids of the documents a response returns.
RetIds(r) == {r.ret[i].id : i \in DOMAIN r.ret}

\* C16: list reports total = N and totalPages = ceil(N / limit) for the N
\* tasks of the user, and returns tasks of the user only, none twice, as
\* many as page and limit leave; a page or limit that is missing, not
\* numeric or below 1 is taken as 1, respectively 10, and any other as
\* given; and with no write in between, two different pages under the same
\* limit have no task in common (with the page sizes: pages 1..totalPages
\* hold every task exactly once).
C16_ListPaginates ==
    [][last'.op = "list" =>
          LET mine == {i \in DOMAIN store : store[i].creator = last'.user}
              N    == Cardinality(mine)
              L    == last'.meta.limit
              P    == last'.meta.page
              rest == N - (P - 1) * L
          IN  /\ store' = store
              /\ P = (CASE last'.body.page = "1" -> 1 [] last'.body.page = "2" -> 2 [] OTHER -> 1)
              /\ L = (CASE last'.body.limit = "1" -> 1 [] last'.body.limit = "2" -> 2 [] OTHER -> 10)
              /\ last'.meta.total = N
              /\ last'.meta.totalPages * L >= N /\ (last'.meta.totalPages - 1) * L < N
              /\ RetIds(last') \subseteq mine
              /\ Cardinality(RetIds(last')) = Len(last'.ret)
              /\ Len(last'.ret) = (IF rest <= 0 THEN 0 ELSE IF rest < L THEN rest ELSE L)
              /\ (/\ last.op = "list" /\ last.user = last'.user
                  /\ last.meta.limit = L /\ last.meta.page # P)
                    => RetIds(last) \cap RetIds(last') = {}]_vars

\* The rank of a priority: High above Medium above Low.
PriorityRank(p) == CASE p = "High" -> 3 [] p = "Medium" -> 2 [] p = "Low" -> 1 [] OTHER -> 0

\* C17: the tasks list and search return stand by descending priority,
\* every High before every Medium before every Low, and among tasks of
\* equal priority by descending created_at.
C17_OrderedByPriority ==
    (last.op \in {"list", "search"} /\ last.code = 200)
        => \A i, j \in DOMAIN last.ret :
              i < j => \/ PriorityRank(last.ret[i].doc.priority) > PriorityRank(last.ret[j].doc.priority)
                       \/ /\ last.ret[i].doc.priority = last.ret[j].doc.priority
                          /\ last.ret[i].doc.created_at >= last.ret[j].doc.created_at

\* The tasks of user u in store s that contain keyword k in their name as
\* it stands, letter case aside, and satisfy the other filters of query q.
LiteralMatches(s, u, q) ==
    {i \in DOMAIN s :
        /\ s[i].creator = u
        /\ (Has(q, "status") /\ q.status # "") => s[i].status = q.status
        /\ (Has(q, "priority") /\ q.priority # "") => s[i].priority = q.priority
        /\ Has(q, "startDate") => s[i].start >= q.startDate
        /\ Has(q, "endDate") => s[i].finish <= q.endDate
        /\ \E k \in 0..(Len(s[i].task) - Len(q.keyword)) :
              \A j \in 1..Len(q.keyword) : Lower(q.keyword[j]) = Lower(s[i].task[k + j])}

\* C18: a search with a keyword returns exactly the tasks of the user that
\* satisfy the other filters and whose name contains the keyword as a
\* literal substring, letter case aside.
C18_KeywordLiteral ==
    (last.op = "search" /\ last.code = 200 /\ Has(last.body, "keyword") /\ last.body.keyword # <<>>)
        => RetIds(last) = LiteralMatches(store, last.user, last.body)

\* C19: a failure inside the post-save hook is not surfaced to the request
\* whose save ran it: a creation, plain or as a subtask of an existing
\* parent, with a body that passes validation answers 200 and the new task
\* is stored; a deleteSubtask of an id the existing parent holds is not
\* answered 500.
C19_HookFailureNotSurfaced ==
    [][/\ (last'.op = "create" /\ validateTaskOk(last'.body))
             => /\ last'.code = 200
                /\ last'.id \in DOMAIN store' \ DOMAIN store
       /\ (last'.op = "createSubtask" /\ validateTaskOk(last'.body) /\ last'.id \in DOMAIN store)
             => /\ last'.code = 200
                /\ last'.sub \in DOMAIN store' \ DOMAIN store
       /\ (/\ last'.op = "deleteSubtask" /\ last'.id \in DOMAIN store
           /\ last'.sub \in Range(store[last'.id].subtasks))
             => last'.code # 500]_vars

\* The tasks saved when the tasks S are saved into s: S, and in turn every
\* task whose subtasks hold a saved task that is Done and no stored task
\* that is not Done (the hook of the one saves the other).
RECURSIVE SavedWith(_, _)
SavedWith(s, S) ==
    LET T == S \cup {p \in DOMAIN s :
                        /\ \E c \in S \cap DOMAIN s :
                              s[c].status = "Done" /\ c \in Range(s[p].subtasks)
                        /\ \A d \in Range(s[p].subtasks) :
                              d \in DOMAIN s => s[d].status = "Done"}
    IN  IF T = S THEN S ELSE SavedWith(s, T)

\* The tasks the request of the step saved with status Done: the new task,
\* the parent whose subtasks it changed, and the parents the hooks saved.
SavedDone ==
    {c \in SavedWith(store', {last'.id} \cup (IF last'.op = "createSubtask" THEN {last'.sub} ELSE {})) :
        c \in DOMAIN store' /\ store'[c].status = "Done"}

\* C20: in a request that saves (create, createSubtask, deleteSubtask) a
\* stored task changes its status only to Done, and only if its subtasks
\* hold a task just saved as Done and every stored task they hold is Done;
\* no other field of a stored task changes, the subtasks of the parent the
\* request addresses aside.
C20_PropagationOnlyWhenAllDone ==
    [][last'.op \in {"create", "createSubtask", "deleteSubtask"} =>
          \A p \in DOMAIN store \cap DOMAIN store' :
             /\ DOMAIN store'[p] = DOMAIN store[p]
             /\ \A k \in DOMAIN store[p] \ {"status", "subtasks"} : store'[p][k] = store[p][k]
             /\ p # last'.id => store'[p].subtasks = store[p].subtasks
             /\ store'[p].status # store[p].status
                   => /\ store'[p].status = "Done"
                      /\ Range(store'[p].subtasks) \cap SavedDone # {}
                      /\ \A c \in Range(store[p].subtasks) :
                            c \in DOMAIN store => store[c].status = "Done"
                      /\ \A c \in Range(store'[p].subtasks) :
                            c \in DOMAIN store' => store'[c].status = "Done"]_vars

\* A task created Todo stands Done after a subtask was added to its Done
\* subtask: the hook of that subtask's save has marked it.
C20_Witness ==
    /\ last.op = "createSubtask" /\ last.code = 200
    /\ \E p \in DOMAIN store :
          /\ store[p].task = FullA.task /\ store[p].status = "Done"
          /\ last.id \in Range(store[p].subtasks)

\* The siblings under parent p in store s: the ids its subtasks hold.
Siblings(s, p) == Range(s[p].subtasks)

\* C21: when a request saves as Done the last incomplete one of two or more
\* sibling subtasks of a parent, whatever the order in which the requests
\* of the siblings took their turns, the parent's status is Done after it;
\* and a request that saves as Done a subtask of a parent that is already
\* Done leaves the parent Done.
C21_SiblingsDoneParentDone ==
    [][\A p \in DOMAIN store \cap DOMAIN store' :
          /\ (/\ store'[p].subtasks = store[p].subtasks
              /\ Cardinality(Siblings(store, p)) >= 2
              /\ Siblings(store, p) \subseteq DOMAIN store \cap DOMAIN store'
              /\ \E c \in Siblings(store, p) :
                    store[c].status # "Done" /\ store'[c].status = "Done"
              /\ \A c \in Siblings(store, p) : store'[c].status = "Done")
                => store'[p].status = "Done"
          /\ (/\ store[p].status = "Done"
              /\ last'.code = 200
              /\ last'.id \in Siblings(store, p) \cap DOMAIN store'
              /\ store'[last'.id].status = "Done")
                => store'[p].status = "Done"]_vars

\* The places where id stands in a subtasks sequence of store s.
Occurrences(s, id) ==
    UNION {{<<p, i>> : i \in {j \in DOMAIN s[p].subtasks : s[p].subtasks[j] = id}} :
              p \in DOMAIN s}

\* C22: after any sequence of create, createSubtask, update, delete and
\* deleteSubtask requests, each task id stands in the subtasks sequence of
\* at most one task and at most once in it.
C22_SubtaskInOneParentOnce ==
    \A id \in Ids : Cardinality(Occurrences(store, id)) <= 1

\* A task has two subtasks, and an update that names one of them as the
\* subtasks of another task was refused.
C22_Witness ==
    /\ last.op = "update" /\ last.code = 400 /\ last.body = WithSubtasks
    /\ last.id \in DOMAIN store
    /\ \E p \in DOMAIN store \ {last.id} :
          /\ Len(store[p].subtasks) = 2
          /\ \E i \in 1..2 : store[p].subtasks[i] \in Range(WithSubtasks.subtasks)

====
